---- MODULE Spec2Model ----
(***************************************************************************)
(* Model of the bloda solid-block archiver (bloda-sys/src/lib.rs and       *)
(* bloda-sys/src/compress_utils.rs): the packer that distributes files to  *)
(* blocks, the block writer, the archive writer, the archive reader and    *)
(* the bulk extractor.                                                     *)
(*                                                                         *)
(* Paths are sequences of components, files are sequences of bytes         *)
(* (naturals below 256), the file system next to the output path is a      *)
(* function from file names to byte sequences.                             *)
(*                                                                         *)
(* The codec libraries (xz, lz4_flex, zstd) and the SQLite store are       *)
(* external: a codec is modelled as a framing (one magic byte naming the   *)
(* codec, one length byte, the payload), a decoder accepts a sequence of   *)
(* zero or more frames of its own codec and nothing else; the index store  *)
(* is modelled as a length-prefixed record stream.                         *)
(***************************************************************************)
EXTENDS Integers, Sequences, FiniteSets, TLC

\* ------------------------------------------------------------------------
\* Bounds of the model
\* ------------------------------------------------------------------------
MaxFileSize == 3
MaxBudget == 3
MaxThreads == 2
MaxThreshold == 1

\* ------------------------------------------------------------------------
\* Program constants
\* ------------------------------------------------------------------------
\* size_of::<usize>() on the 64-bit targets the crate is built for:
\* compressed_index.len().to_be_bytes() is 8 bytes long.
UsizeBytes == 8
\* the reader's header buffer [0u8; 8]
HeaderBytes == 8
\* const DEFAULT_MAX_MEM_EXTRACT_SIZE: u64 = 16 * 1024 * 1024
DEFAULT_MAX_MEM_EXTRACT_SIZE == 16 * 1024 * 1024
\* the thread count of the Python binding when none is given
DefaultThreads == 1

\* ------------------------------------------------------------------------
\* Generic helpers
\* ------------------------------------------------------------------------
IsPrefix(p, s) == Len(p) <= Len(s) /\ \A i \in 1..Len(p) : s[i] = p[i]

RECURSIVE SumSizes(_)
SumSizes(fs) == IF fs = <<>> THEN 0 ELSE fs[1].size + SumSizes(Tail(fs))

RECURSIVE Flatten(_)
Flatten(ss) == IF ss = <<>> THEN <<>> ELSE ss[1] \o Flatten(Tail(ss))

\* n zero bytes: vec![0u8; n]
Zeros(n) == [i \in 1..n |-> 0]

\* Read::read on a regular file into a buffer of n zero bytes, after a seek
\* to position pos (0-based): the bytes available are copied, the rest of the
\* buffer stays zero.
ReadAt(bytes, pos, n) ==
  [i \in 1..n |-> IF pos + i <= Len(bytes) THEN bytes[pos + i] ELSE 0]

\* ------------------------------------------------------------------------
\* Paths and the input tree
\* ------------------------------------------------------------------------
FileNames == {<<"a.txt">>, <<"b.txt">>, <<"sub", "c.txt">>}
DirNames == {<<>>, <<"sub">>, <<"empty">>}
EntryNames == <<(<<>>), (<<"a.txt">>), (<<"b.txt">>), (<<"sub", "c.txt">>),
                (<<"sub">>), (<<"empty">>)>>

Parent(p) == SubSeq(p, 1, Len(p) - 1)

\* The input directory passed to create_archive.
InputRoot == <<"in">>

\* Path::join
Join(base, rel) == base \o rel

\* Path::strip_prefix(dir).unwrap_or(path)
StripPrefix(path, dir) ==
  IF IsPrefix(dir, path) THEN SubSeq(path, Len(dir) + 1, Len(path)) ELSE path

\* First byte of a file's content; the bytes of a file are distinct from the
\* bytes of every other file and from the codec magic bytes.
ContentBase(name) ==
  CASE name = <<"a.txt">> -> 16
    [] name = <<"b.txt">> -> 32
    [] OTHER -> 48

ContentOf(name, size) == [i \in 1..size |-> ContentBase(name) + i]

\* A tree: the regular files (relative name -> bytes) and the directories
\* (relative names, the root <<>> included).
Ancestors(p) == {SubSeq(p, 1, k) : k \in 0..(Len(p) - 1)}

IsTree(t) ==
  /\ <<>> \in t.dirs
  /\ \A f \in DOMAIN t.files : Parent(f) \in t.dirs
  /\ \A d \in t.dirs : Ancestors(d) \subseteq t.dirs

\* The input directories of the model: every subset of FileNames with every
\* size up to MaxFileSize, in every set of directories that holds them.
FileMaps ==
  {[f \in DOMAIN sz |-> ContentOf(f, sz[f])] :
     sz \in UNION {[fs -> 0..MaxFileSize] : fs \in SUBSET FileNames}}

InputTrees ==
  {t \in [files : FileMaps, dirs : SUBSET DirNames] : IsTree(t)}

\* fs::read_dir(x).next().is_none(): no file and no directory has x as parent
HasChildren(t, d) ==
  \/ \E f \in DOMAIN t.files : Parent(f) = d
  \/ \E e \in t.dirs : e # <<>> /\ Parent(e) = d

LeafDirs(t) == {d \in t.dirs : ~HasChildren(t, d)}

\* ------------------------------------------------------------------------
\* Codec adapter (bloda-sys/src/compress_utils.rs)
\* ------------------------------------------------------------------------
CodecLabels == {"LZMA", "LZ4", "ZSTD", "NONE"}

\* The codecs compress_data and decompress_data have a match arm for.
KnownCodecs == {"LZMA", "LZ4", "ZSTD"}

\* First byte of the xz, LZ4-frame and zstd magic numbers.
Magic(compression) ==
  CASE compression = "LZMA" -> 253
    [] compression = "LZ4" -> 4
    [] OTHER -> 40

\* One frame of the codec: magic, payload length, payload.
Frame(data, compression) == <<Magic(compression), Len(data)>> \o data

\* compress_data(input, output_stream, compression): the bytes appended to
\* the output stream and the value returned, Ok(size) with size the count
\* io::copy returns, which is the number of bytes read from the input.
compress_data(input_data, compression) ==
  IF compression \in KnownCodecs
    THEN [ok |-> TRUE, out |-> Frame(input_data, compression),
          size |-> Len(input_data)]
    ELSE [ok |-> FALSE, out |-> <<>>, size |-> 0]

\* The decoder of a codec: zero or more frames of that codec, anything else
\* is an error.
RECURSIVE DecodeFrames(_, _)
DecodeFrames(bytes, magic) ==
  IF bytes = <<>> THEN [ok |-> TRUE, out |-> <<>>]
  ELSE IF Len(bytes) < 2 THEN [ok |-> FALSE, out |-> <<>>]
  ELSE IF bytes[1] # magic \/ Len(bytes) < 2 + bytes[2]
    THEN [ok |-> FALSE, out |-> <<>>]
  ELSE LET rest == DecodeFrames(SubSeq(bytes, 3 + bytes[2], Len(bytes)), magic)
       IN  IF rest.ok
             THEN [ok |-> TRUE,
                   out |-> SubSeq(bytes, 3, 2 + bytes[2]) \o rest.out]
             ELSE [ok |-> FALSE, out |-> <<>>]

\* decompress_data(input_stream, output_stream, compression)
decompress_data(input_stream, compression) ==
  IF compression \in KnownCodecs
    THEN DecodeFrames(input_stream, Magic(compression))
    ELSE [ok |-> FALSE, out |-> <<>>]

\* ------------------------------------------------------------------------
\* Index store (write_index_data and the loads of ArchiveReader::new)
\* ------------------------------------------------------------------------
\* 'S' of "SQLite format 3"
SqliteMagic == 83

CodecList == <<"LZMA", "LZ4", "ZSTD", "NONE">>

NameId(n) == CHOOSE i \in DOMAIN EntryNames : EntryNames[i] = n
CodecId(c) == CHOOSE i \in DOMAIN CodecList : CodecList[i] = c

FileRowBytes(r) == <<NameId(r.name), r.block, r.offset, r.size>>
LeafRowBytes(r) == <<NameId(r.name)>>
BlockRowBytes(r) == <<r.id, r.size, r.offset, CodecId(r.compression_type)>>

\* write_index_data: the bytes of the index file, the three tables in the
\* order of the three inserts, rows in vector order.
write_index_data(files, folder_leaves, block_infos) ==
  <<SqliteMagic>>
    \o <<Len(files)>> \o Flatten([i \in DOMAIN files |-> FileRowBytes(files[i])])
    \o <<Len(folder_leaves)>>
    \o Flatten([i \in DOMAIN folder_leaves |-> LeafRowBytes(folder_leaves[i])])
    \o <<Len(block_infos)>>
    \o Flatten([i \in DOMAIN block_infos |-> BlockRowBytes(block_infos[i])])

\* The three table loads of ArchiveReader::new (lines 42-65): an error when
\* the bytes are not a store with the three tables.
read_index(bytes) ==
  LET n == Len(bytes)
      okHead == n >= 2 /\ bytes[1] = SqliteMagic
      nf == IF okHead THEN bytes[2] ELSE 0
      pl == 3 + 4 * nf
      okFiles == okHead /\ n >= pl
                  /\ \A i \in 0..(nf - 1) :
                        bytes[3 + 4 * i] \in DOMAIN EntryNames
      nl == IF okFiles THEN bytes[pl] ELSE 0
      pb == pl + 1 + nl
      okLeaves == okFiles /\ n >= pb
                  /\ \A i \in 1..nl : bytes[pl + i] \in DOMAIN EntryNames
      nb == IF okLeaves THEN bytes[pb] ELSE 0
      okBlocks == okLeaves /\ n = pb + 4 * nb
                  /\ \A i \in 0..(nb - 1) :
                        bytes[pb + 4 + 4 * i] \in DOMAIN CodecList
  IN  IF ~okBlocks
        THEN [ok |-> FALSE, files |-> <<>>, folder_leaves |-> <<>>,
              blocks |-> <<>>]
        ELSE [ok |-> TRUE,
              files |-> [i \in 1..nf |->
                 [name |-> EntryNames[bytes[3 + 4 * (i - 1)]],
                  block |-> bytes[4 + 4 * (i - 1)],
                  offset |-> bytes[5 + 4 * (i - 1)],
                  size |-> bytes[6 + 4 * (i - 1)]]],
              folder_leaves |-> [i \in 1..nl |->
                 [name |-> EntryNames[bytes[pl + i]]]],
              blocks |-> [i \in 1..nb |->
                 [id |-> bytes[pb + 1 + 4 * (i - 1)],
                  size |-> bytes[pb + 2 + 4 * (i - 1)],
                  offset |-> bytes[pb + 3 + 4 * (i - 1)],
                  compression_type |-> CodecList[bytes[pb + 4 + 4 * (i - 1)]]]]]

\* ------------------------------------------------------------------------
\* Integer encodings of the archive header
\* ------------------------------------------------------------------------
RECURSIVE ByteAt(_, _)
\* the k-th base-256 digit of n, the least significant being digit 0
ByteAt(n, k) == IF k = 0 THEN n % 256 ELSE ByteAt(n \div 256, k - 1)

\* usize::to_be_bytes
to_be_bytes(n) == [i \in 1..UsizeBytes |-> ByteAt(n, UsizeBytes - i)]

RECURSIVE from_be_acc(_, _)
from_be_acc(bytes, acc) ==
  IF bytes = <<>> THEN acc ELSE from_be_acc(Tail(bytes), acc * 256 + bytes[1])

\* u64::from_be_bytes
from_be_bytes(bytes) == from_be_acc(bytes, 0)

\* ------------------------------------------------------------------------
\* Packer (distribute_files_to_blocks)
\* ------------------------------------------------------------------------
\* The orders in which the elements of a finite set can be enumerated.
Orders(S) ==
  {o \in [1..Cardinality(S) -> S] : \A i, j \in DOMAIN o : i # j => o[i] # o[j]}

\* files_w_sizes.sort_by_key(|x| x.1): a stable sort, ascending by size.
RECURSIVE InsertBySize(_, _)
InsertBySize(sorted, f) ==
  IF sorted = <<>> THEN <<f>>
  ELSE IF sorted[1].size <= f.size
    THEN <<sorted[1]>> \o InsertBySize(Tail(sorted), f)
    ELSE <<f>> \o sorted

\* The files left in walk order.
SortBySize_walk_order(s) == s

RECURSIVE SortBySize(_)
SortBySize(s) ==
  IF s = <<>> THEN <<>>
  ELSE InsertBySize(SortBySize(SubSeq(s, 1, Len(s) - 1)), s[Len(s)])

\* files_w_sizes before the sort: the regular files in walk order, each with
\* the length its metadata reports.
files_w_sizes(t, file_order) ==
  [i \in DOMAIN file_order |->
     [path |-> Join(InputRoot, file_order[i]),
      size |-> Len(t.files[file_order[i]])]]

\* PackFile with the running offset kept when a block is closed.
PackFile_keep_offset(acc, f, max_multi_block_size) ==
  LET close == (acc.curr_block_offset + f.size > max_multi_block_size)
                 /\ Len(acc.curr_block_files) > 0
      files == IF close THEN <<>> ELSE acc.curr_block_files
      offset == acc.curr_block_offset
  IN  [block_infos |-> IF close
                         THEN Append(acc.block_infos, acc.curr_block_files)
                         ELSE acc.block_infos,
       curr_block_files |->
         Append(files, [path |-> f.path, offset |-> offset, size |-> f.size]),
       curr_block_offset |-> offset + f.size]

\* PackFile with the budget compared to the running offset alone.
PackFile_no_size(acc, f, max_multi_block_size) ==
  LET close == (acc.curr_block_offset > max_multi_block_size)
                 /\ Len(acc.curr_block_files) > 0
      files == IF close THEN <<>> ELSE acc.curr_block_files
      offset == IF close THEN 0 ELSE acc.curr_block_offset
  IN  [block_infos |-> IF close
                         THEN Append(acc.block_infos, acc.curr_block_files)
                         ELSE acc.block_infos,
       curr_block_files |->
         Append(files, [path |-> f.path, offset |-> offset, size |-> f.size]),
       curr_block_offset |-> offset + f.size]

\* One iteration of the loop of lines 321-329. acc holds block_infos,
\* curr_block_files and curr_block_offset.
PackFile(acc, f, max_multi_block_size) ==
  LET close == (acc.curr_block_offset + f.size > max_multi_block_size)
                 /\ Len(acc.curr_block_files) > 0
      files == IF close THEN <<>> ELSE acc.curr_block_files
      offset == IF close THEN 0 ELSE acc.curr_block_offset
  IN  [block_infos |-> IF close
                         THEN Append(acc.block_infos, acc.curr_block_files)
                         ELSE acc.block_infos,
       curr_block_files |->
         Append(files, [path |-> f.path, offset |-> offset, size |-> f.size]),
       curr_block_offset |-> offset + f.size]

RECURSIVE PackFiles(_, _, _)
PackFiles(acc, fs, max_multi_block_size) ==
  IF fs = <<>> THEN acc
  ELSE PackFiles(PackFile(acc, fs[1], max_multi_block_size), Tail(fs),
                 max_multi_block_size)

\* distribute_files_to_blocks(inp_dir, max_multi_block_size): the placement
\* plan and the leaf directories, for a walk that meets the files in
\* file_order and the empty directories in leaf_order.
distribute_files_to_blocks(t, file_order, leaf_order, max_multi_block_size) ==
  LET acc == PackFiles([block_infos |-> <<>>, curr_block_files |-> <<>>,
                        curr_block_offset |-> 0],
                       SortBySize(files_w_sizes(t, file_order)),
                       max_multi_block_size)
  IN  [block_infos |-> IF Len(acc.curr_block_files) > 0
                         THEN Append(acc.block_infos, acc.curr_block_files)
                         ELSE acc.block_infos,
       folder_leaves |-> [i \in DOMAIN leaf_order |->
                            Join(InputRoot, leaf_order[i])]]

\* ------------------------------------------------------------------------
\* Block writer (compress_block)
\* ------------------------------------------------------------------------
\* The bytes of the input file at an absolute path.
SourceBytes(t, path) == t.files[StripPrefix(path, InputRoot)]

\* Lines 352-356: each file is read into its slice of the zeroed buffer.
RECURSIVE FillBlock(_, _, _)
FillBlock(block_data, block_files, t) ==
  IF block_files = <<>> THEN block_data
  ELSE LET f == block_files[1]
           src == ReadAt(SourceBytes(t, f.path), 0, f.size)
       IN  FillBlock([i \in DOMAIN block_data |->
                        IF i > f.offset /\ i <= f.offset + f.size /\ f.size > 0
                          THEN src[i - f.offset] ELSE block_data[i]],
                     Tail(block_files), t)

\* compress_block(output, block_files, compression_type): whether it
\* succeeds, whether the staging file exists afterwards and with which bytes,
\* and the size it returns.
compress_block(block_files, compression_type, t) ==
  IF Len(block_files) = 1
    THEN LET c == compress_data(SourceBytes(t, block_files[1].path),
                                compression_type)
         IN  [ok |-> c.ok, created |-> TRUE, bytes |-> c.out, size |-> c.size]
    ELSE LET total_size == SumSizes(block_files)
             block_data == FillBlock(Zeros(total_size), block_files, t)
             c == compress_data(block_data, compression_type)
         IN  [ok |-> c.ok, created |-> c.ok, bytes |-> c.out,
              size |-> Len(c.out)]

\* ------------------------------------------------------------------------
\* Files next to the output path
\* ------------------------------------------------------------------------
\* The output path passed to create_archive.
VARIABLE output

\* A file name is the sequence of its dot-separated parts. The output path
\* of the runs that read the archive back:
DefaultOutput == <<"archive", "bda">>

\* The output paths of create_archive: with the extension of the archive,
\* with the extensions of the side files, with a staging extension and
\* with no extension.
OutputNames == {DefaultOutput, <<"archive", "bdablob">>,
                <<"archive", "bdadb">>, <<"archive", "temp", "0">>,
                <<"archive">>}

Digits == <<"0", "1", "2", "3", "4", "5", "6", "7", "8", "9">>

\* Path::with_extension: the part after the last dot is replaced.
with_extension(path, ext) ==
  (IF Len(path) > 1 THEN SubSeq(path, 1, Len(path) - 1) ELSE path) \o ext

\* output.with_extension(format!("temp.{i}"))
block_path(i) == with_extension(output, <<"temp", Digits[i + 1]>>)
\* output.with_extension("bdablob")
blob_path == with_extension(output, <<"bdablob">>)
\* output.with_extension("bdadb")
db_path_name == with_extension(output, <<"bdadb">>)

\* fs::File::create + write of the whole content, fs::write
WriteFile(d, path, bytes) == (path :> bytes) @@ d
\* fs::remove_file
RemoveFile(d, path) == [q \in (DOMAIN d) \ {path} |-> d[q]]

\* ------------------------------------------------------------------------
\* Archive writer: the rows of the index (create_archive_inner 381-409)
\* ------------------------------------------------------------------------
\* BlockRows with the running offset never advanced.
RECURSIVE BlockRows_no_advance(_, _, _, _)
BlockRows_no_advance(sizes, i, curr_offset, ct) ==
  IF i > Len(sizes) THEN <<>>
  ELSE <<[id |-> i - 1, size |-> sizes[i], offset |-> curr_offset,
          compression_type |-> ct]>>
         \o BlockRows_no_advance(sizes, i + 1, curr_offset, ct)

RECURSIVE BlockRows(_, _, _, _)
\* lines 381-391, from the i-th size on (1-based), with the running offset
BlockRows(sizes, i, curr_offset, ct) ==
  IF i > Len(sizes) THEN <<>>
  ELSE <<[id |-> i - 1, size |-> sizes[i], offset |-> curr_offset,
          compression_type |-> ct]>>
         \o BlockRows(sizes, i + 1, curr_offset + sizes[i], ct)

\* lines 392-397
FolderLeafRows(leaves) ==
  [i \in DOMAIN leaves |-> [name |-> StripPrefix(leaves[i], InputRoot)]]

\* FileRows with 1-based block numbers.
FileRows_one_based(plan) ==
  Flatten([i \in DOMAIN plan |->
    [j \in DOMAIN plan[i] |->
       [name |-> StripPrefix(plan[i][j].path, InputRoot), block |-> i,
        offset |-> plan[i][j].offset, size |-> plan[i][j].size]]])

\* lines 398-409
FileRows(plan) ==
  Flatten([i \in DOMAIN plan |->
    [j \in DOMAIN plan[i] |->
       [name |-> StripPrefix(plan[i][j].path, InputRoot), block |-> i - 1,
        offset |-> plan[i][j].offset, size |-> plan[i][j].size]]])

\* The staged files copied in descending id order.
StitchBlocks_descending(d, i, n) ==
  Flatten([k \in 1..(n - i) |-> d[block_path(n - k)]])

\* lines 412-418: the staged files copied to the blob in ascending id order
RECURSIVE StitchBlocks(_, _, _)
StitchBlocks(d, i, n) ==
  IF i >= n THEN <<>> ELSE d[block_path(i)] \o StitchBlocks(d, i + 1, n)

\* The staged files stay where they are.
RemoveBlocks_none(d, i, n, failing) == d

\* Line 417 over the loop of line 413: every staged file is removed, except
\* those whose removal fails.
RECURSIVE RemoveBlocks(_, _, _, _)
RemoveBlocks(d, i, n, failing) ==
  IF i >= n THEN d
  ELSE RemoveBlocks(IF i \in failing THEN d ELSE RemoveFile(d, block_path(i)),
                    i + 1, n, failing)

\* The codec create_archive_inner compresses the index file with (line 429).
IndexCodec(ct) == ct

\* archive_layout with the length of header and index in the first 8 bytes.
archive_layout_total(compressed_index, blob) ==
  to_be_bytes(Len(compressed_index) + UsizeBytes) \o compressed_index \o blob

\* lines 430-435: the bytes written to the output file
archive_layout(compressed_index, blob) ==
  to_be_bytes(Len(compressed_index)) \o compressed_index \o blob

\* ------------------------------------------------------------------------
\* Archive reader (ArchiveReader::new)
\* ------------------------------------------------------------------------
Min(a, b) == IF a < b THEN a ELSE b

NoReader ==
  [ok |-> FALSE, max_mem_extract_size |-> 0, files |-> <<>>,
   folder_leaves |-> {}, block_infos |-> <<>>]

\* HashMap<String, _> collected from (name, row) pairs: a later row replaces
\* an earlier one of the same name.
RowMap(rows) ==
  [n \in {rows[i].name : i \in DOMAIN rows} |->
     rows[CHOOSE i \in DOMAIN rows :
            rows[i].name = n /\ \A j \in DOMAIN rows : rows[j].name = n => j <= i]]

ArchiveReader_new(archive, max_mem_extract_size) ==
  LET index_len_bytes == ReadAt(archive, 0, HeaderBytes)
      index_len == from_be_bytes(index_len_bytes)
      pos == Min(HeaderBytes, Len(archive))
      index_compresses_data == ReadAt(archive, pos, index_len)
      index_data == decompress_data(index_compresses_data, "LZ4")
      blob_offset == index_len + 8
      idx == read_index(index_data.out)
  IN  IF ~index_data.ok \/ ~idx.ok THEN NoReader
      ELSE [ok |-> TRUE,
            max_mem_extract_size |-> max_mem_extract_size,
            files |-> RowMap(idx.files),
            folder_leaves |-> {idx.folder_leaves[i].name :
                                 i \in DOMAIN idx.folder_leaves},
            block_infos |-> [i \in DOMAIN idx.blocks |->
               [idx.blocks[i] EXCEPT !.offset = @ + blob_offset]]]

\* ------------------------------------------------------------------------
\* Extractor (extract_block_mem, extract_block_file, extract_files)
\* ------------------------------------------------------------------------
\* Lines 113-127 and 132-146: the block's bytes are read from the archive at
\* the block's absolute offset and decompressed with the block's codec.
extract_block(r, archive, block_id) ==
  LET block_info == r.block_infos[block_id + 1]
      comp_data == ReadAt(archive, block_info.offset, block_info.size)
  IN  decompress_data(comp_data, block_info.compression_type)

\* fs::create_dir_all of a directory under the output root
CreateDirAll(t, d) == [t EXCEPT !.dirs = @ \cup {d} \cup Ancestors(d)]

\* The ways creating one output file can fail: creating its parent
\* directory (lines 213-216, 233-236), File::create (lines 217-218, 237-238),
\* io::copy or write (lines 226-227, 241-243).
FaultKinds == {"mkdir", "create", "write"}

\* No I/O failure in a block group.
NoFault == [at |-> 0, kind |-> "none"]

\* Lines 213-229 (temp-file mode) and 232-244 (in-memory mode) for the files
\* of one block, in iteration order: the parent directory and the output
\* file are created, then the slice is written. In memory the slice
\* block_data[start..end] panics when it ends after the data; from the temp
\* file seek + take copy the bytes that exist. output_dir.join("") is the
\* output directory with a trailing separator, which File::create refuses.
\* fault.at counts the files down to the one whose creation fails.
RECURSIVE WriteBlockFiles(_, _, _, _, _)
WriteBlockFiles(t, file_infos_, block_data, in_mem, fault) ==
  IF file_infos_ = <<>> THEN [tree |-> t, status |-> "ok"]
  ELSE LET f == file_infos_[1]
           t1 == CreateDirAll(t, Parent(f.name))
           t2 == [t1 EXCEPT !.files = (f.name :> <<>>) @@ @]
           start == f.offset
           end == start + f.size
           avail == Min(f.size, IF Len(block_data) > start
                                  THEN Len(block_data) - start ELSE 0)
       IN  IF fault.at = 1 /\ fault.kind = "mkdir"
             THEN [tree |-> t, status |-> "err"]
           ELSE IF f.name = <<>>
             THEN [tree |-> t, status |-> "err"]
           ELSE IF fault.at = 1 /\ fault.kind = "create"
             THEN [tree |-> t1, status |-> "err"]
           ELSE IF in_mem /\ end > Len(block_data)
             THEN [tree |-> t2, status |-> "panic"]
           ELSE IF fault.at = 1
             THEN [tree |-> t2, status |-> "err"]
           ELSE WriteBlockFiles(
                  [t1 EXCEPT !.files =
                     (f.name :> SubSeq(block_data, start + 1, start + avail))
                       @@ @],
                  Tail(file_infos_), block_data, in_mem,
                  [fault EXCEPT !.at = IF @ > 0 THEN @ - 1 ELSE 0])

\* The patterns passed to extract_files.
Patterns == {".*", "^a", "^sub", "zzz"}

\* regex::Regex::is_match: an unanchored search of the pattern in the name,
\* whose components are joined with "/".
is_match(re_pattern, name) ==
  CASE re_pattern = ".*" -> TRUE
    [] re_pattern = "^a" -> Len(name) > 0 /\ name[1] = "a.txt"
    [] re_pattern = "^sub" -> Len(name) > 0 /\ name[1] = "sub"
    [] OTHER -> FALSE

\* Line 158 and line 209: the block goes through a temp file when its
\* recorded size is above the reader's limit.
UsesTempFile(r, block_id) ==
  r.block_infos[block_id + 1].size > r.max_mem_extract_size

\* The ? operator of extract_files: every error ends the call, whatever
\* ignore_errors is (the parameter is never read).
OnError_skip(ignore_errors_) ==
  IF ignore_errors_ THEN "extract" ELSE "extract_err"

OnError(ignore_errors_) == "extract_err"

\* The output path passed to extract_file.
OutFile == <<"one", "out.bin">>

\* The names passed to extract_file: the entries of a tree and a name no
\* archive holds.
ExtractNames ==
  {EntryNames[i] : i \in DOMAIN EntryNames} \cup {<<"missing">>}

\* extract_file with the directory and the output file made before the name
\* is looked up.
extract_file_create_first(r, archive, name, t) ==
  LET t1 == CreateDirAll(t, Parent(OutFile))
      t2 == [t1 EXCEPT !.files = (OutFile :> <<>>) @@ @]
  IN  IF name \notin DOMAIN r.files
        THEN [status |-> "not_found", tree |-> t2, reads |-> <<>>]
      ELSE [status |-> "file_err", tree |-> t2, reads |-> <<>>]

\* extract_file, lines 150-177: the name is looked up, then the parent
\* directory and the output file are created, then the block is read and
\* the file's range is written.
extract_file(r, archive, name, t) ==
  IF name \notin DOMAIN r.files
    THEN [status |-> "not_found", tree |-> t, reads |-> <<>>]
  ELSE
    LET file_info == r.files[name]
        t1 == CreateDirAll(t, Parent(OutFile))
        t2 == [t1 EXCEPT !.files = (OutFile :> <<>>) @@ @]
    IN  IF file_info.block + 1 \notin DOMAIN r.block_infos
          THEN [status |-> "file_panic", tree |-> t2, reads |-> <<>>]
        ELSE
          LET in_mem == ~UsesTempFile(r, file_info.block)
              rd == <<[block |-> file_info.block, in_mem |-> in_mem]>>
              blk == extract_block(r, archive, file_info.block)
              avail == Min(file_info.size,
                           IF Len(blk.out) > file_info.offset
                             THEN Len(blk.out) - file_info.offset ELSE 0)
          IN  IF ~blk.ok
                THEN [status |-> "file_err", tree |-> t2, reads |-> rd]
              ELSE IF in_mem /\ file_info.offset + file_info.size > Len(blk.out)
                THEN [status |-> "file_panic", tree |-> t2, reads |-> rd]
              ELSE [status |-> "file_ok",
                    tree |-> [t2 EXCEPT !.files =
                                (OutFile :> SubSeq(blk.out,
                                                   file_info.offset + 1,
                                                   file_info.offset + avail))
                                  @@ @],
                    reads |-> rd]

\* ------------------------------------------------------------------------
\* State
\* ------------------------------------------------------------------------
VARIABLES
  tree,                 \* the input path: a directory or a regular file
  compression_type,     \* the codec label passed to create_archive
  max_multi_block_size, \* the block budget
  threads,              \* the thread count passed to create_archive
  pc,                   \* the step create_archive / the reader is at
  block_files,          \* the placement plan
  folder_leaves,        \* the leaf directories of the plan
  block_sizes,          \* the sizes compress_block returned, in plan order
  block_infos,          \* the block rows
  file_infos,           \* the file rows
  folder_leaf_infos,    \* the leaf rows
  disk,                 \* the files next to the output path: name -> bytes
  remove_failed,        \* the side files whose fs::remove_file failed
  reader,               \* the ArchiveReader
  re_pattern,           \* the pattern of the extract_files call
  ignore_errors,        \* the ignore_errors flag of the call
  pending,              \* the block ids extract_files has yet to process
  decompressed,         \* the blocks read and decompressed, in call order
  err_seen,             \* an error was raised inside extract_files
  out_tree              \* the output directory

vars == <<tree, compression_type, max_multi_block_size, output, threads, pc,
          block_files, folder_leaves, block_sizes, block_infos, file_infos,
          folder_leaf_infos, disk, remove_failed, reader, re_pattern,
          ignore_errors, pending, decompressed, err_seen, out_tree>>

inputs == <<tree, compression_type, max_multi_block_size, output, threads>>
plan_vars == <<block_files, folder_leaves>>
row_vars == <<block_infos, file_infos, folder_leaf_infos>>
call_vars == <<re_pattern, ignore_errors>>
read_vars == <<reader, call_vars, pending, decompressed, err_seen, out_tree>>

EmptyDisk == [q \in {} |-> <<>>]
NoTree == [files |-> [q \in {} |-> <<>>], dirs |-> {}]

\* What is the same before every call of create_archive.
InitRest ==
  /\ compression_type \in CodecLabels
  /\ max_multi_block_size \in 0..MaxBudget
  /\ pc = "start"
  /\ block_files = <<>>
  /\ folder_leaves = <<>>
  /\ block_sizes = <<>>
  /\ block_infos = <<>>
  /\ file_infos = <<>>
  /\ folder_leaf_infos = <<>>
  /\ disk = EmptyDisk
  /\ remove_failed = {}
  /\ reader = NoReader
  /\ re_pattern = ".*"
  /\ ignore_errors = TRUE
  /\ pending = {}
  /\ decompressed = <<>>
  /\ err_seen = FALSE
  /\ out_tree = NoTree

\* create_archive called on a directory
Init ==
  /\ tree \in InputTrees
  /\ output = DefaultOutput
  /\ threads = DefaultThreads
  /\ InitRest

\* create_archive called on a directory with some thread count
InitThreads ==
  /\ tree \in InputTrees
  /\ output = DefaultOutput
  /\ threads \in 1..MaxThreads
  /\ InitRest

\* create_archive called on a directory with some output path
InitAnyOutput ==
  /\ tree \in InputTrees
  /\ output \in OutputNames
  /\ threads = DefaultThreads
  /\ InitRest

\* A regular file as the input path: WalkDir yields the path itself, which
\* is_file() keeps, and strip_prefix leaves the empty relative path.
RootFiles ==
  {[files |-> (<<>> :> ContentOf(<<>>, size)), dirs |-> {}] :
     size \in 0..MaxFileSize}

\* create_archive called on a directory or on a regular file
InitAnyRoot ==
  /\ tree \in InputTrees \cup RootFiles
  /\ output = DefaultOutput
  /\ threads = DefaultThreads
  /\ InitRest

\* ------------------------------------------------------------------------
\* create_archive_inner
\* ------------------------------------------------------------------------
\* line 370: the packer, for some walk order of the input path
Distribute ==
  /\ pc = "start"
  /\ \E file_order \in Orders(DOMAIN tree.files),
        leaf_order \in Orders(LeafDirs(tree)) :
       LET plan == distribute_files_to_blocks(tree, file_order, leaf_order,
                                              max_multi_block_size)
       IN  /\ block_files' = plan.block_infos
           /\ folder_leaves' = plan.folder_leaves
  /\ pc' = "compress"
  /\ UNCHANGED <<inputs, block_sizes, row_vars, disk, remove_failed,
                 read_vars>>

\* lines 372-379: the iterator is a sequential one, so whatever the thread
\* count of the pool the next block of the plan is compressed to its staging
\* file and its size is pushed; the first error ends create_archive.
CompressBlock ==
  /\ pc = "compress"
  /\ Len(block_sizes) < Len(block_files)
  /\ LET i == Len(block_sizes)
         r == compress_block(block_files[i + 1], compression_type, tree)
     IN  /\ disk' = IF r.created THEN WriteFile(disk, block_path(i), r.bytes)
                    ELSE disk
         /\ block_sizes' = IF r.ok THEN Append(block_sizes, r.size)
                           ELSE block_sizes
         /\ pc' = IF r.ok THEN "compress" ELSE "create_err"
  /\ UNCHANGED <<inputs, plan_vars, row_vars, remove_failed, read_vars>>

\* lines 381-409: the rows of the three tables
BuildRows ==
  /\ pc = "compress"
  /\ Len(block_sizes) = Len(block_files)
  /\ block_infos' = BlockRows(block_sizes, 1, 0, compression_type)
  /\ folder_leaf_infos' = FolderLeafRows(folder_leaves)
  /\ file_infos' = FileRows(block_files)
  /\ pc' = "stitch"
  /\ UNCHANGED <<inputs, plan_vars, block_sizes, disk, remove_failed,
                 read_vars>>

\* lines 410-419: the staged files are copied to the blob in ascending id
\* order and removed; a removal that fails is logged and ignored (line 417).
StitchBlobWith(failing) ==
  /\ pc = "stitch"
  /\ LET n == Len(block_infos)
     IN  disk' = WriteFile(RemoveBlocks(disk, 0, n, failing), blob_path,
                           StitchBlocks(disk, 0, n))
  /\ remove_failed' = remove_failed \cup {block_path(k) : k \in failing}
  /\ pc' = "index"
  /\ UNCHANGED <<inputs, plan_vars, block_sizes, row_vars, read_vars>>

\* every removal succeeds
StitchBlob ==
  /\ pc = "stitch"
  /\ StitchBlobWith({})

\* lines 421-423: the index store is written
WriteIndex ==
  /\ pc = "index"
  /\ disk' = WriteFile(disk, db_path_name,
                       write_index_data(file_infos, folder_leaf_infos,
                                        block_infos))
  /\ pc' = "write"
  /\ UNCHANGED <<inputs, plan_vars, block_sizes, row_vars, remove_failed,
                 read_vars>>

\* lines 425-439: the output file is created or truncated, the index file
\* is read and compressed, the length and the compressed index are written,
\* the blob is copied after them, the side files are removed; a removal that
\* fails is logged and ignored (lines 437-438). When the blob path is the
\* output path, io::copy reads what it appends and ends only when the write
\* fails: the model keeps one round of the copy.
WriteArchiveWith(failing) ==
  /\ pc = "write"
  /\ LET truncated == WriteFile(disk, output, <<>>)
         c == compress_data(truncated[db_path_name],
                            IndexCodec(compression_type))
         compressed_index == c.out
         head == archive_layout(compressed_index, <<>>)
         with_head == WriteFile(truncated, output, head)
         archive == archive_layout(compressed_index, with_head[blob_path])
         written == WriteFile(with_head, output, archive)
         no_db == IF db_path_name \in failing THEN written
                  ELSE RemoveFile(written, db_path_name)
         no_blob == IF blob_path \in failing THEN no_db
                    ELSE RemoveFile(no_db, blob_path)
     IN  IF ~c.ok
           THEN /\ disk' = truncated
                /\ pc' = "create_err"
                /\ UNCHANGED remove_failed
         ELSE IF blob_path = output
           THEN /\ disk' = written
                /\ pc' = "create_err"
                /\ UNCHANGED remove_failed
         ELSE /\ disk' = no_blob
              /\ remove_failed' = remove_failed \cup failing
              /\ pc' = "created"
  /\ UNCHANGED <<inputs, plan_vars, block_sizes, row_vars, read_vars>>

\* every removal succeeds
WriteArchive ==
  /\ pc = "write"
  /\ WriteArchiveWith({})

\* ------------------------------------------------------------------------
\* ArchiveReader: decompress_archive is ArchiveReader::new(bda_path, None)
\* followed by extract_files(".*", out_dir, true)
\* ------------------------------------------------------------------------
\* The values of max_mem_extract_size: line 51, None is the default.
Thresholds == (0..MaxThreshold) \cup {DEFAULT_MAX_MEM_EXTRACT_SIZE}

\* lines 22-77 and 457: ArchiveReader::new(path, max_mem_extract_size)
OpenArchive ==
  /\ pc = "created"
  /\ \E limit \in Thresholds :
       reader' = ArchiveReader_new(disk[output], limit)
  /\ pc' = IF reader'.ok THEN "opened" ELSE "open_err"
  /\ UNCHANGED <<inputs, plan_vars, block_sizes, row_vars, disk,
                 remove_failed, call_vars, pending, decompressed, err_seen,
                 out_tree>>

\* The directories lines 187-193 create for the pattern: every matching leaf
\* with its ancestors, the output directory among them.
LeafDirsToCreate(r, pattern) ==
  UNION {{n} \cup Ancestors(n) :
           n \in {m \in r.folder_leaves : is_match(pattern, m)}}

\* The ids of the blocks that hold a file, matching or not.
BlocksToExtract_all(r, pattern) ==
  {r.files[n].block : n \in DOMAIN r.files}

\* lines 195-205: the ids of the blocks that hold a matching file
BlocksToExtract(r, pattern) ==
  {r.files[n].block : n \in {m \in DOMAIN r.files : is_match(pattern, m)}}

\* extract_files(re_pattern, output_dir, ignore_errors), lines 185-205: the
\* matching leaf directories are created and the matching files are grouped
\* by block.
ExtractLeaves ==
  /\ pc = "opened"
  /\ \E pattern \in Patterns, flag \in BOOLEAN :
       /\ re_pattern' = pattern
       /\ ignore_errors' = flag
       /\ out_tree' = [out_tree EXCEPT
                         !.dirs = @ \cup LeafDirsToCreate(reader, pattern)]
       /\ pending' = BlocksToExtract(reader, pattern)
  /\ pc' = "extract"
  /\ UNCHANGED <<inputs, plan_vars, block_sizes, row_vars, disk,
                 remove_failed, reader, decompressed, err_seen>>

\* The file rows of one block group.
GroupOf(r, pattern, block_id) ==
  {r.files[n] : n \in {m \in DOMAIN r.files :
                         is_match(pattern, m) /\ r.files[m].block = block_id}}

\* lines 207-246, one iteration: a block group, in the order the hash map
\* yields it, is decompressed once, in memory or to a temp file, and its
\* files are written; the first error ends the call.
ExtractBlockWith(faults) ==
  /\ pc = "extract"
  /\ \E block_id \in pending :
       LET group == GroupOf(reader, re_pattern, block_id)
       IN  IF block_id + 1 \notin DOMAIN reader.block_infos
             THEN /\ pc' = "panic"
                  /\ UNCHANGED <<pending, out_tree, decompressed, err_seen>>
             ELSE LET in_mem == ~UsesTempFile(reader, block_id)
                      blk == extract_block(reader, disk[output], block_id)
                  IN  /\ decompressed' =
                           Append(decompressed,
                                  [block |-> block_id, in_mem |-> in_mem])
                      /\ pending' = pending \ {block_id}
                      /\ IF ~blk.ok
                           THEN /\ pc' = OnError(ignore_errors)
                                /\ err_seen' = TRUE
                                /\ UNCHANGED out_tree
                           ELSE \E order \in Orders(group), fault \in faults :
                                  LET w == WriteBlockFiles(out_tree, order,
                                             blk.out, in_mem, fault)
                                  IN  /\ fault.at <= Len(order)
                                      /\ (fault.at > 0 => w.status = "err")
                                      /\ out_tree' = w.tree
                                      /\ err_seen' =
                                           (err_seen \/ w.status = "err")
                                      /\ pc' =
                                           CASE w.status = "panic" -> "panic"
                                             [] w.status = "err" ->
                                                  OnError(ignore_errors)
                                             [] OTHER -> "extract"
  /\ UNCHANGED <<inputs, plan_vars, block_sizes, row_vars, disk,
                 remove_failed, reader, call_vars>>

\* no file system call fails
ExtractBlock ==
  /\ pc = "extract"
  /\ ExtractBlockWith({NoFault})

\* line 247 and 459: every group is done, extract_files returns Ok
ExtractDone ==
  /\ pc = "extract"
  /\ pending = {}
  /\ pc' = "decompressed"
  /\ UNCHANGED <<inputs, plan_vars, block_sizes, row_vars, disk,
                 remove_failed, read_vars>>

\* extract_file(name, output), lines 150-177, on the opened reader
ExtractFile ==
  /\ pc = "opened"
  /\ \E name \in ExtractNames :
       LET r == extract_file(reader, disk[output], name, out_tree)
       IN  /\ out_tree' = r.tree
           /\ decompressed' = decompressed \o r.reads
           /\ pc' = r.status
  /\ UNCHANGED <<inputs, plan_vars, block_sizes, row_vars, disk,
                 remove_failed, reader, call_vars, pending, err_seen>>

Next ==
  \/ Distribute
  \/ CompressBlock
  \/ BuildRows
  \/ StitchBlob
  \/ WriteIndex
  \/ WriteArchive
  \/ OpenArchive
  \/ ExtractLeaves
  \/ ExtractBlock
  \/ ExtractDone
  \/ ExtractFile

Spec == Init /\ [][Next]_vars

\* The steps of create_archive
NextCreate ==
  \/ Distribute
  \/ CompressBlock
  \/ BuildRows
  \/ StitchBlob
  \/ WriteIndex
  \/ WriteArchive

\* create_archive for every thread count of the pool (lines 449-453)
SpecThreads == InitThreads /\ [][NextCreate]_vars

\* create_archive on a directory or a regular file
SpecAnyRoot == InitAnyRoot /\ [][Next]_vars

\* ------------------------------------------------------------------------
\* I/O failures
\* ------------------------------------------------------------------------
\* lines 416-418: fs::remove_file fails for some staged files
StitchBlobKeep ==
  \E failing \in SUBSET (0..(Len(block_infos) - 1)) :
    /\ failing # {}
    /\ StitchBlobWith(failing)

\* lines 437-438: fs::remove_file fails for the index file, the blob or both
WriteArchiveKeep ==
  \E failing \in SUBSET {db_path_name, blob_path} :
    /\ failing # {}
    /\ WriteArchiveWith(failing)

\* lines 187-193: create_dir_all fails for a matching leaf directory, after
\* some of the others were created; the error ends the call.
ExtractLeavesFail ==
  /\ pc = "opened"
  /\ \E pattern \in Patterns, flag \in BOOLEAN :
       LET leaves == {m \in reader.folder_leaves : is_match(pattern, m)}
       IN  \E bad \in leaves : \E made \in SUBSET (leaves \ {bad}) :
             /\ re_pattern' = pattern
             /\ ignore_errors' = flag
             /\ out_tree' = [out_tree EXCEPT
                               !.dirs = @ \cup UNION {{n} \cup Ancestors(n) :
                                                        n \in made}]
             /\ pending' = IF OnError(flag) = "extract"
                             THEN BlocksToExtract(reader, pattern) ELSE {}
             /\ pc' = OnError(flag)
  /\ err_seen' = TRUE
  /\ UNCHANGED <<inputs, plan_vars, block_sizes, row_vars, disk,
                 remove_failed, reader, decompressed>>

\* lines 210-211 and 231: the block cannot be read from the archive
ExtractBlockReadFail ==
  /\ pc = "extract"
  /\ \E block_id \in pending :
       /\ block_id + 1 \in DOMAIN reader.block_infos
       /\ pending' = pending \ {block_id}
  /\ pc' = OnError(ignore_errors)
  /\ err_seen' = TRUE
  /\ UNCHANGED <<inputs, plan_vars, block_sizes, row_vars, disk,
                 remove_failed, reader, call_vars, decompressed, out_tree>>

\* lines 213-244: creating the directory or the file, or writing the file,
\* fails for one file of the group
ExtractBlockWriteFail ==
  /\ pc = "extract"
  /\ ExtractBlockWith({[at |-> k, kind |-> kd] :
                         k \in 1..Cardinality(FileNames), kd \in FaultKinds})

\* lines 341-359: compress_block fails on a file system call, before or
\* after the staging file is created
CompressBlockFail ==
  /\ pc = "compress"
  /\ Len(block_sizes) < Len(block_files)
  /\ \E created \in BOOLEAN :
       disk' = IF created
                 THEN WriteFile(disk, block_path(Len(block_sizes)), <<>>)
                 ELSE disk
  /\ pc' = "compress_err"
  /\ UNCHANGED <<inputs, plan_vars, block_sizes, row_vars, remove_failed,
                 read_vars>>

\* lines 421-423: write_index_data fails, before or after the index file
\* is created
WriteIndexFail ==
  /\ pc = "index"
  /\ \E created \in BOOLEAN :
       disk' = IF created THEN WriteFile(disk, db_path_name, <<>>) ELSE disk
  /\ pc' = "index_err"
  /\ UNCHANGED <<inputs, plan_vars, block_sizes, row_vars, remove_failed,
                 read_vars>>

\* create_archive for every output path, with failing block compressions
\* and index writes
NextAnyOutput ==
  \/ NextCreate
  \/ CompressBlockFail
  \/ WriteIndexFail

SpecAnyOutput == InitAnyOutput /\ [][NextAnyOutput]_vars

\* create_archive with failing removals
NextRemoveFaults ==
  \/ NextCreate
  \/ StitchBlobKeep
  \/ WriteArchiveKeep

SpecRemoveFaults == Init /\ [][NextRemoveFaults]_vars

\* extract_files with failing file system calls
NextExtractFaults ==
  \/ Next
  \/ ExtractLeavesFail
  \/ ExtractBlockReadFail
  \/ ExtractBlockWriteFail

SpecExtractFaults == Init /\ [][NextExtractFaults]_vars

\* ------------------------------------------------------------------------
\* Damaged archives
\* ------------------------------------------------------------------------
\* The archive file loses its tail, from a byte of the header or of the
\* index on, before it is opened.
TruncateArchive ==
  /\ pc = "created"
  /\ Len(disk[output]) >= HeaderBytes
  /\ \E k \in 0..(HeaderBytes - 1 + from_be_bytes(SubSeq(disk[output], 1,
                                                          HeaderBytes))) :
       /\ k < Len(disk[output])
       /\ disk' = WriteFile(disk, output, SubSeq(disk[output], 1, k))
  /\ UNCHANGED <<inputs, plan_vars, block_sizes, row_vars, remove_failed,
                 read_vars, pc>>

NextTruncated ==
  \/ NextCreate
  \/ TruncateArchive
  \/ OpenArchive

\* ArchiveReader::new on archives that were cut short
SpecTruncated == Init /\ [][NextTruncated]_vars

TypeOK == pc \in {"start", "compress", "create_err", "stitch", "index",
                  "write", "created", "opened", "open_err", "extract",
                  "extract_err", "panic", "decompressed", "not_found",
                  "file_err", "file_panic", "file_ok", "compress_err",
                  "index_err"}

\* ------------------------------------------------------------------------
\* Properties
\* ------------------------------------------------------------------------
\* The steps at which create_archive has returned Ok and the archive is
\* complete.
ArchiveWritten == {"created", "opened", "open_err", "extract", "extract_err",
                   "panic", "decompressed", "not_found", "file_err",
                   "file_panic", "file_ok"}

Failed == {"create_err", "open_err", "extract_err", "panic"}

\* The reader calls decompress_archive makes (lines 457-458): the default
\* limit, the pattern ".*" and ignore_errors = true.
IsDecompressArchive ==
  /\ reader.ok => reader.max_mem_extract_size = DEFAULT_MAX_MEM_EXTRACT_SIZE
  /\ re_pattern = ".*"
  /\ ignore_errors
  /\ pc \notin {"not_found", "file_err", "file_panic", "file_ok"}

\* The value of the 8-byte header of the archive.
HeaderLen == from_be_bytes(SubSeq(disk[output], 1, HeaderBytes))

\* The bytes of the archive that follow the header and the index.
BlobOf(archive, L) == SubSeq(archive, HeaderBytes + L + 1, Len(archive))

\* The uncompressed bytes of the i-th block of the plan: its files in plan
\* order, back to back.
RawBlock(i) ==
  Flatten([j \in DOMAIN block_files[i] |->
             tree.files[StripPrefix(block_files[i][j].path, InputRoot)]])

\* The compressed bytes of the i-th block of the plan.
CompressedBlock(i) == Frame(RawBlock(i), compression_type)

\* The index file of the rows.
IndexFile == write_index_data(file_infos, folder_leaf_infos, block_infos)

\* C1: create_archive followed by decompress_archive succeeds for every
\* input directory and every codec label, and the output tree has the
\* regular files (name and content) and the empty leaf directories of the
\* input tree.
RoundTripFidelity ==
  IsDecompressArchive =>
    /\ pc \notin Failed
    /\ pc = "decompressed" =>
         /\ out_tree.files = tree.files
         /\ LeafDirs(out_tree) = LeafDirs(tree)

\* C2: in every produced archive the index is compressed with LZ4, whatever
\* the data codec: the bytes after the header are the LZ4 frame of the index
\* file, which the reader's LZ4 decoder turns back into the index file.
IndexCodecIsLZ4 ==
  pc \in ArchiveWritten =>
    /\ SubSeq(disk[output], HeaderBytes + 1, HeaderBytes + HeaderLen)
         = Frame(IndexFile, "LZ4")
    /\ decompress_data(
         SubSeq(disk[output], HeaderBytes + 1, HeaderBytes + HeaderLen),
         "LZ4") = [ok |-> TRUE, out |-> IndexFile]

\* C3: the size the block writer returns for a block, stored as
\* blocks[id].size, is the length of the block's staged file, and the archive
\* bytes [8 + L + offset, 8 + L + offset + size) are the compressed bytes of
\* the block, for single-file and multi-file blocks.
BlockSizeIsCompressedLength ==
  /\ pc \in {"compress", "stitch"} =>
       \A i \in DOMAIN block_sizes :
         block_sizes[i] = Len(disk[block_path(i - 1)])
  /\ pc \in ArchiveWritten =>
       \A i \in DOMAIN block_infos :
         SubSeq(disk[output],
                HeaderBytes + HeaderLen + block_infos[i].offset + 1,
                HeaderBytes + HeaderLen + block_infos[i].offset
                  + block_infos[i].size)
           = CompressedBlock(i)

\* C4: in the block rows, the first offset is 0 and every next offset is the
\* previous offset plus the previous size, for any number of blocks.
LayoutInvariant ==
  /\ Len(block_infos) > 0 => block_infos[1].offset = 0
  /\ \A i \in 1..(Len(block_infos) - 1) :
       block_infos[i + 1].offset = block_infos[i].offset + block_infos[i].size

LayoutWitness ==
  /\ pc = "stitch"
  /\ Len(block_infos) >= 2
  /\ block_infos[1].size > 0
  /\ block_infos[2].offset > 0

\* C5: the first 8 bytes of a produced archive, read big-endian, are the
\* number of compressed-index bytes that follow them; the blob starts at
\* 8 + that value, the offset the reader adds to every block offset.
IndexLengthInvariant ==
  pc \in ArchiveWritten =>
    /\ Len(disk[output]) >= HeaderBytes + HeaderLen
    /\ SubSeq(disk[output], HeaderBytes + 1, HeaderBytes + HeaderLen)
         = Frame(IndexFile, IndexCodec(compression_type))
    /\ BlobOf(disk[output], HeaderLen)
         = Flatten([i \in DOMAIN block_files |-> CompressedBlock(i)])
    /\ reader.ok =>
         /\ Len(reader.block_infos) = Len(block_infos)
         /\ \A i \in DOMAIN block_infos :
              reader.block_infos[i].offset
                = block_infos[i].offset + HeaderBytes + HeaderLen

IndexLengthWitness ==
  /\ pc = "opened"
  /\ reader.ok
  /\ Len(reader.block_infos) >= 2
  /\ HeaderLen > 0

\* C6: in the plan the files of a block lie back to back in plan order from
\* offset 0, so every file range is within the block's uncompressed size,
\* two ranges of one block do not overlap, every file is in exactly one
\* block, and the block buffer holds each file's bytes at its range.
PackingInvariant ==
  /\ \A i \in DOMAIN block_files :
       LET b == block_files[i]
       IN  /\ Len(b) > 0 => b[1].offset = 0
           /\ \A j \in 1..(Len(b) - 1) : b[j + 1].offset = b[j].offset + b[j].size
           /\ \A j \in DOMAIN b :
                /\ 0 <= b[j].offset
                /\ b[j].offset + b[j].size <= SumSizes(b)
                /\ SubSeq(FillBlock(Zeros(SumSizes(b)), b, tree),
                          b[j].offset + 1, b[j].offset + b[j].size)
                     = SourceBytes(tree, b[j].path)
           /\ \A j, k \in DOMAIN b :
                j < k => b[j].offset + b[j].size <= b[k].offset
  /\ pc # "start" =>
       \A n \in DOMAIN tree.files :
         Cardinality({<<i, j>> \in (1..Len(block_files))
                                    \X (1..Cardinality(FileNames)) :
                        /\ j \in DOMAIN block_files[i]
                        /\ block_files[i][j].path = Join(InputRoot, n)}) = 1

PackingWitness ==
  /\ pc = "compress"
  /\ Len(block_files) >= 2
  /\ \E i \in DOMAIN block_files :
       /\ Len(block_files[i]) >= 2
       /\ block_files[i][1].size > 0
  /\ block_files[2][1].size > 0

\* C7: the block ids are 0..n-1 in blob order and every file row's block is
\* the id of a block row, so the reader's block_infos[file.block] is in range
\* for every file of the index.
ReferentialIntegrity ==
  /\ \A i \in DOMAIN block_infos : block_infos[i].id = i - 1
  /\ pc \notin {"start", "compress", "create_err"} =>
       \A k \in DOMAIN file_infos :
         \E i \in DOMAIN block_infos : block_infos[i].id = file_infos[k].block
  /\ reader.ok =>
       \A n \in DOMAIN reader.files :
         /\ reader.files[n].block + 1 \in DOMAIN reader.block_infos
         /\ reader.block_infos[reader.files[n].block + 1].id
              = reader.files[n].block

ReferentialWitness ==
  /\ pc = "opened"
  /\ reader.ok
  /\ Len(reader.block_infos) >= 2
  /\ \E n \in DOMAIN reader.files : reader.files[n].block = 1

\* C8: a file larger than the budget is the only file of its block.
OversizeAlone ==
  \A i \in DOMAIN block_files :
    \A j \in DOMAIN block_files[i] :
      block_files[i][j].size > max_multi_block_size => Len(block_files[i]) = 1

OversizeWitness ==
  /\ pc = "compress"
  /\ Len(block_files) = 3
  /\ block_files[1][1].size = 0
  /\ block_files[2][1].size > max_multi_block_size
  /\ block_files[3][1].size > max_multi_block_size

\* C9: the label NONE is accepted by compress and decompress and copies its
\* input, and create_archive with NONE succeeds.
NoneIsPassThrough ==
  compression_type = "NONE" =>
    /\ pc # "create_err"
    /\ pc \in {"compress", "stitch"} =>
         \A i \in DOMAIN block_sizes :
           /\ disk[block_path(i - 1)] = RawBlock(i)
           /\ decompress_data(disk[block_path(i - 1)], "NONE")
                = [ok |-> TRUE, out |-> RawBlock(i)]
    /\ (IsDecompressArchive /\ pc = "decompressed") =>
         out_tree.files = tree.files

\* C10: an empty input directory gives a plan and an index with no block, no
\* file row and no leaf row, and decompressing the archive gives an empty
\* directory.
EmptyInput == DOMAIN tree.files = {} /\ tree.dirs = {<<>>}

EmptyDirectoryArchive ==
  EmptyInput =>
    /\ block_files = <<>>
    /\ folder_leaves = <<>>
    /\ block_infos = <<>> /\ file_infos = <<>> /\ folder_leaf_infos = <<>>
    /\ IsDecompressArchive =>
         /\ pc \notin Failed
         /\ pc = "decompressed" =>
              out_tree = [files |-> tree.files, dirs |-> {<<>>}]

\* C11: when the path passed to create_archive is a regular file, the plan
\* has no block, the index has no block row and no file row, and the
\* archive holds only that minimal index.
RootIsFile == tree \in RootFiles

RegularFileRootGivesEmptyArchive ==
  (RootIsFile /\ pc # "start") =>
    /\ block_files = <<>>
    /\ block_infos = <<>> /\ file_infos = <<>>
    /\ pc \in ArchiveWritten =>
         /\ IndexFile = write_index_data(<<>>, <<>>, <<>>)
         /\ BlobOf(disk[output], HeaderLen) = <<>>

\* The steps at which a call of extract_files has ended: with Ok, with an
\* error, or unwinding from a panic.
CallEnded == {"decompressed", "extract_err", "panic"}

\* How many times block b was read and decompressed.
TimesDecompressed(b) ==
  Cardinality({i \in DOMAIN decompressed : decompressed[i].block = b})

\* C12: during one extract_files call a block that holds a matching file is
\* read and decompressed exactly once, in memory or through a temp file, and
\* a block that holds none is never read: the number of decompressions of
\* the call is the number of distinct block ids among the matching files.
BlockUniqueness ==
  LET matching == BlocksToExtract(reader, re_pattern)
  IN  /\ pc \in {"extract"} \cup CallEnded =>
           \A b \in 0..(Len(reader.block_infos) - 1) :
             /\ TimesDecompressed(b) <= 1
             /\ b \notin matching => TimesDecompressed(b) = 0
      /\ pc \in CallEnded =>
           /\ \A b \in matching : TimesDecompressed(b) = 1
           /\ Len(decompressed) = Cardinality(matching)

\* The names of the index that the pattern of the call matches.
MatchingFiles == {n \in DOMAIN reader.files : is_match(re_pattern, n)}

\* What the full extraction (pattern ".*") with the same reader creates for
\* the file n: the file with its bytes, or nothing when the block of n
\* cannot be decompressed or the slice panics.
FullExtractionOf(n) ==
  LET f == reader.files[n]
      blk == extract_block(reader, disk[output], f.block)
      w == WriteBlockFiles(NoTree, <<f>>, blk.out,
                           ~UsesTempFile(reader, f.block), NoFault)
  IN  IF blk.ok /\ w.status = "ok" THEN w.tree.files
      ELSE [q \in {} |-> <<>>]

\* C13: for every archive and every valid pattern P, extract_files(P, out)
\* creates exactly the files whose names match P, each with the bytes the
\* full extraction gives the file of that name, and no other file.
SelectiveExtractionEquivalence ==
  pc \in CallEnded =>
    /\ DOMAIN out_tree.files = MatchingFiles
    /\ \A n \in MatchingFiles :
         /\ n \in DOMAIN FullExtractionOf(n)
         /\ n \in DOMAIN out_tree.files
         /\ out_tree.files[n] = FullExtractionOf(n)[n]

\* C15: a block is extracted through a temp file exactly when its compressed
\* size is above the reader's limit, in memory otherwise (also when equal),
\* and in both modes every file of the group gets the bytes
\* [offset, offset + size) of the decompressed block.
SpillModeEquivalence ==
  pc \in {"extract"} \cup CallEnded =>
    \A i \in DOMAIN decompressed :
      LET b == decompressed[i].block
          blk == extract_block(reader, disk[output], b)
      IN  /\ decompressed[i].in_mem
                = ~(Len(CompressedBlock(b + 1)) > reader.max_mem_extract_size)
          /\ (blk.ok /\ ~err_seen) =>
                /\ pc # "panic"
                /\ \A n \in MatchingFiles :
                     reader.files[n].block = b =>
                       LET f == reader.files[n]
                       IN  /\ n \in DOMAIN out_tree.files
                           /\ f.offset + f.size <= Len(blk.out)
                           /\ out_tree.files[n]
                                = SubSeq(blk.out, f.offset + 1,
                                         f.offset + f.size)

\* The staged bytes of the i-th block of the plan.
StagedBlock(i) == compress_block(block_files[i], compression_type, tree).bytes

UnknownNames(r) == ExtractNames \ DOMAIN r.files

ExtractFileNotFoundNoEffect ==
  /\ pc = "not_found" =>
       /\ out_tree = NoTree
       /\ decompressed = <<>>
  /\ pc = "opened" =>
       \A name \in UnknownNames(reader) :
         extract_file(reader, disk[output], name, out_tree)
           = [status |-> "not_found", tree |-> out_tree, reads |-> <<>>]
  /\ pc \in {"file_ok", "file_err", "file_panic"} =>
       OutFile \in DOMAIN out_tree.files

ExtractFileNotFoundWitness ==
  /\ pc = "not_found"
  /\ DOMAIN reader.files # {}
  /\ reader.folder_leaves # {}
  /\ Len(reader.block_infos) >= 1

\* C17: ArchiveReader::new rejects a file shorter than the 8-byte header and
\* a file whose header length is more than the bytes after the header: no
\* reader is made from a short header read or a short index read.
ShortArchive(archive) ==
  \/ Len(archive) < HeaderBytes
  \/ from_be_bytes(SubSeq(archive, 1, HeaderBytes))
       > Len(archive) - HeaderBytes

ShortArchiveRejected ==
  (pc \in {"opened", "open_err"} /\ ShortArchive(disk[output])) =>
    /\ pc = "open_err"
    /\ ~reader.ok

\* C18: extract_files with a pattern that matches no file name and no leaf
\* directory name returns Ok, decompresses no block and creates no file and
\* no directory under the output directory.
NothingMatches ==
  /\ MatchingFiles = {}
  /\ {m \in reader.folder_leaves : is_match(re_pattern, m)} = {}

NoMatchNoEffect ==
  (pc \in {"extract"} \cup CallEnded /\ NothingMatches) =>
    /\ pc \in {"extract", "decompressed"}
    /\ pending = {}
    /\ decompressed = <<>>
    /\ DOMAIN out_tree.files = {}
    /\ out_tree.dirs \subseteq {<<>>}

NoMatchWitness ==
  /\ pc = "decompressed"
  /\ NothingMatches
  /\ Cardinality(DOMAIN reader.files) >= 2
  /\ reader.folder_leaves # {}
  /\ Len(reader.block_infos) >= 2

AbortOnFirstError ==
  /\ [](err_seen => pc = "extract_err")
  /\ [][/\ err_seen => UNCHANGED <<out_tree, decompressed>>
        /\ (~err_seen /\ err_seen') =>
             /\ out_tree.dirs \subseteq out_tree'.dirs
             /\ \A n \in DOMAIN out_tree.files :
                  /\ n \in DOMAIN out_tree'.files
                  /\ out_tree'.files[n] = out_tree.files[n]]_vars

AbortWitness ==
  /\ pc = "extract_err"
  /\ err_seen
  /\ ignore_errors
  /\ pending # {}
  /\ Len(decompressed) >= 1
  /\ \E n \in DOMAIN out_tree.files : out_tree.files[n] # <<>>

\* The files of the plan, block after block.
PlanFiles == Flatten(block_files)

\* C21: the plan is the greedy small-first packing: read block by block the
\* file sizes do not decrease; no block is empty; a block with two or more
\* files has a total size of at most the budget; and a block is closed only
\* when the first file of the next block does not fit into it.
GreedySmallFirst ==
  /\ \A i \in 1..(Len(PlanFiles) - 1) :
       PlanFiles[i].size <= PlanFiles[i + 1].size
  /\ \A k \in DOMAIN block_files :
       /\ Len(block_files[k]) > 0
       /\ Len(block_files[k]) >= 2 =>
            SumSizes(block_files[k]) <= max_multi_block_size
  /\ \A k \in 1..(Len(block_files) - 1) :
       SumSizes(block_files[k]) + block_files[k + 1][1].size
         > max_multi_block_size

GreedyWitness ==
  /\ pc = "compress"
  /\ Len(block_files) = 2
  /\ Len(block_files[1]) = 2
  /\ block_files[1][1].size > 0
  /\ SumSizes(block_files[1]) = max_multi_block_size
  /\ block_files[2][1].size > block_files[1][2].size

\* The staging indices with_extension can format with one digit.
StagingIds == 0..(Len(Digits) - 1)

\* C22: during create_archive no two writers write the same path: the
\* staging paths of two block indices differ, every staging path differs
\* from the blob path, the index path and the output path, whatever the
\* output file name, and the output path is written by the final pass
\* alone, so it does not exist before that pass.
NoSharedPaths ==
  /\ \A i, j \in StagingIds : i # j => block_path(i) # block_path(j)
  /\ \A i \in StagingIds :
       block_path(i) \notin {blob_path, db_path_name, output}
  /\ pc \in {"start", "compress", "stitch", "index", "write"} =>
       output \notin DOMAIN disk

\* The compression of a block failed.
BlockFailed ==
  \/ pc = "compress_err"
  \/ pc = "create_err" /\ Len(block_sizes) < Len(block_files)

\* C23: the output file is created or truncated only after every block is
\* compressed, the blob is stitched and the index store is written; when
\* compressing a block or writing the index store fails, create_archive
\* returns the error with the output path neither created nor modified.
OutputCreatedLast ==
  (pc \in {"start", "compress", "stitch", "index", "index_err"}
     \/ BlockFailed) =>
    output \notin DOMAIN disk

====
